---- MODULE Spec2Model ----
(***************************************************************************)
(* Multiplexed remote-console bridge of the Starlight Hypervisor web UI.   *)
(*                                                                         *)
(*   js/console-manager.js  session registry, tabs, control actions        *)
(*   js/vnc-viewer.js       graphical transport (noVNC RFB client)         *)
(*   js/terminal.js         text transport (WebSocket + xterm.js terminal) *)
(*                                                                         *)
(* The browser is single threaded: every action below is one event-loop    *)
(* task (a user event, a transport event, a timer, the resumption of an    *)
(* await) run to completion together with the microtasks it triggers.      *)
(***************************************************************************)
EXTENDS Integers, Sequences, FiniteSets, TLC

\* ------------------------------------------------------------------ bounds
MaxId == 3          \* session ids generated in one run
MaxControl == 1     \* control-action requests issued in one run
MaxMsgs == 2        \* inbound messages delivered per text socket
MaxKeys == 1        \* keystrokes entered per terminal
MaxPaste == 1       \* clipboard reads started by the paste button in one run
MaxSteps == 5       \* handler invocations (event-loop tasks) in one run
MaxLaunch == 2      \* launches of the host terminal in one run

\* --------------------------------------------------------------- constants
CONTROL_ACTION_DELAY == 2000
CONNECTION_ERROR_DELAY == 2000
CONNECTION_CLOSE_DELAY == 2000

Null == 0
Ids == 1..MaxId
Names == {"vm1", "vm2", "lxc1"}
Types == {"vnc", "terminal"}
Ports == {0, 5901}                \* 0: vm.vnc_port absent (falsy)
Icons == {"icon"}                  \* only decorates the tab markup
Verbs == {"start", "restart", "stop", "destroy"}
TerminalVerbs == {"stop", "destroy"}
Data == {"a", "b"}                \* event.data of an inbound message
Keys == {"k"}                     \* data of a terminal onData event
ApiResults == {"success", "failure", "null"}
LaunchOutcomes == {"ok", "nolib", "ctor", "socket"}

VARIABLES
    consoleSessions,    \* Map sessionId -> session, in insertion order
    activeSessionId,    \* foreground session id or Null
    nextId,             \* number of session ids generated so far, plus one
    viewerHidden,       \* #console-viewer carries class 'hidden'
    tabs,               \* tab buttons of #console-tabs, in DOM order
    activeTabs,         \* tabs carrying class 'active'
    containers,         \* .console-content panes attached to #console-area
    hiddenContainers,   \* panes carrying class 'hidden'
    status,             \* status-<id> element: [text, class]
    connectFailed,      \* ids whose init*Session ran its catch block
    vncSessions,        \* keys of vnc-viewer.js vncSessions
    rfbClients,         \* keys of vnc-viewer.js rfbClients
    rfb,                \* connection state of the RFB client made for an id
    vncPc,              \* position of launchVncInContainer for an id
    rfbSecFail,         \* ids whose client fired securityfailure (history)
    termSessions,       \* keys of terminal.js termSessions
    termInstances,      \* keys of terminal.js termInstances
    termSockets,        \* keys of terminal.js termSockets
    termFitAddons,      \* keys of terminal.js termFitAddons
    sock,               \* readyState of the WebSocket made for an id
    sockErr,            \* ids whose socket has fired its error event
    term,               \* xterm.js terminal made for an id
    termOut,            \* what has been written to that terminal, in order
    msgCount,           \* inbound messages delivered on the socket of an id
    received,           \* those messages, in the order of delivery (history)
    sent,               \* what socket.send has put on the socket of an id
    keyCount,           \* keystrokes entered in the terminal of an id
    pendingApi,         \* in-flight apiCall requests of control actions
    ctlIssued,          \* control-action requests issued so far
    closeTimers,        \* pending setTimeout(() => closeTab(id), 2000)
    pendingPaste,       \* handleVncPaste runs suspended at the clipboard read
    pasteIssued,        \* clipboard reads started so far
    pasteCalls,         \* clipboardPasteFrom calls made on the client of an id
    pasteLate,          \* ids whose client got such a call after the close
    hostTerminal,       \* host terminal module: its globals and its page
    steps,              \* event-loop tasks run so far
    lastOp              \* the handler that ran last (history)

vars == <<consoleSessions, activeSessionId, nextId, viewerHidden, tabs,
          activeTabs, containers, hiddenContainers, status, connectFailed,
          vncSessions, rfbClients, rfb, vncPc, rfbSecFail, termSessions,
          termInstances, termSockets, termFitAddons, sock, sockErr, term,
          termOut, msgCount, received, sent, keyCount, pendingApi, ctlIssued,
          closeTimers, pendingPaste, pasteIssued, pasteCalls, pasteLate,
          hostTerminal, steps, lastOp>>

\* the state of the console manager and its two transport modules
consoleVars == <<consoleSessions, activeSessionId, nextId, viewerHidden, tabs,
                 activeTabs, containers, hiddenContainers, status,
                 connectFailed, vncSessions, rfbClients, rfb, vncPc,
                 rfbSecFail, termSessions, termInstances, termSockets,
                 termFitAddons, sock, sockErr, term, termOut, msgCount,
                 received, sent, keyCount, pendingApi, ctlIssued, closeTimers,
                 pendingPaste, pasteIssued, pasteCalls, pasteLate>>

registryVars == <<consoleSessions, activeSessionId, viewerHidden, tabs,
                  activeTabs, containers, hiddenContainers>>
vncVars == <<vncSessions, rfbClients, rfb>>
termVars == <<termSessions, termInstances, termSockets, termFitAddons, sock,
              term>>
keyVars == <<sent, keyCount>>
ioVars == <<msgCount, received, sent, keyCount>>
pasteVars == <<pendingPaste, pasteIssued, pasteCalls, pasteLate>>

Range(s) == {s[i] : i \in DOMAIN s}

\* variant: the element is looked up but not removed
Remove_Kept(s, x) == s

\* tab.remove(): the tab bar without the tab of session x
Remove(s, x) == SelectSeq(s, LAMBDA e : e # x)

Op(o, a) == [op |-> o, arg |-> a]

St(t, c) == [text |-> t, class |-> c]
NoStatus == St("", "")

Reqs == Ids \X Types \X Verbs

\* vm.type of the inventory entry: "lxc" opens a terminal, a VM a display
VmType(name) == IF name = "lxc1" THEN "terminal" ELSE "vnc"

\* the event loop runs one more task of the console manager; the host
\* terminal module is not part of it
Tick == steps < MaxSteps /\ steps' = steps + 1 /\ UNCHANGED hostTerminal

\* the event loop runs one more task of the host terminal module
HostTick == steps < MaxSteps /\ steps' = steps + 1 /\ UNCHANGED consoleVars

\* the connections of the host terminal, numbered in the order of launch
Launches == 1..MaxLaunch

\* the host terminal module as loaded (part_005 lines 6-8): no terminal, no
\* socket, the viewer and the status element as the page markup has them
HostIdle ==
    [hostTermInstance |-> Null, hostTermSocket |-> Null,
     hostTermFitAddon |-> Null, launches |-> 0,
     sock |-> [n \in Launches |-> "none"],
     term |-> [n \in Launches |-> "none"],
     errored |-> {},
     timers |-> [n \in Launches |-> 0],
     viewer |-> "markup", status |-> "",
     out |-> [n \in Launches |-> <<>>],
     sent |-> [n \in Launches |-> <<>>],
     msgs |-> 0, keys |-> 0]

\* the page markup gives #console-viewer the class 'hidden': no sessions,
\* no visible console area
ViewerInitiallyHidden == TRUE

Init ==
    /\ consoleSessions = <<>>
    /\ activeSessionId = Null
    /\ nextId = 1
    /\ viewerHidden = ViewerInitiallyHidden
    /\ tabs = <<>>
    /\ activeTabs = {}
    /\ containers = {}
    /\ hiddenContainers = {}
    /\ status = [i \in Ids |-> NoStatus]
    /\ connectFailed = {}
    /\ vncSessions = {}
    /\ rfbClients = {}
    /\ rfb = [i \in Ids |-> "none"]
    /\ vncPc = [i \in Ids |-> "idle"]
    /\ rfbSecFail = {}
    /\ termSessions = {}
    /\ termInstances = {}
    /\ termSockets = {}
    /\ termFitAddons = {}
    /\ sock = [i \in Ids |-> "none"]
    /\ sockErr = {}
    /\ term = [i \in Ids |-> "none"]
    /\ termOut = [i \in Ids |-> <<>>]
    /\ msgCount = [i \in Ids |-> 0]
    /\ received = [i \in Ids |-> <<>>]
    /\ sent = [i \in Ids |-> <<>>]
    /\ keyCount = [i \in Ids |-> 0]
    /\ pendingApi = [r \in Reqs |-> 0]
    /\ ctlIssued = 0
    /\ closeTimers = [i \in Ids |-> 0]
    /\ pendingPaste = [i \in Ids |-> 0]
    /\ pasteIssued = 0
    /\ pasteCalls = [i \in Ids |-> 0]
    /\ pasteLate = {}
    /\ hostTerminal = HostIdle
    /\ steps = 0
    /\ lastOp = Op("init", "")

\* ------------------------------------------------------- session registry
SessionIds == {consoleSessions[i].id : i \in DOMAIN consoleSessions}

\* consoleSessions.get(sessionId) is defined
HasSession(sessionId) == sessionId \in SessionIds

\* consoleSessions.get(sessionId)
GetSession(sessionId) ==
    consoleSessions[CHOOSE i \in DOMAIN consoleSessions :
                        consoleSessions[i].id = sessionId]

\* variant: the lookup compares nothing and never finds a session
findSessionByName_Never(name) == Null

\* variant: the comparison is inverted
findSessionByName_Inverted(name) ==
    LET hits == {i \in DOMAIN consoleSessions : consoleSessions[i].name # name}
    IN  IF hits = {} THEN Null
        ELSE consoleSessions[CHOOSE i \in hits : \A j \in hits : i <= j].id

\* findSessionByName(name) (lines 84-91): first entry, in insertion order,
\* whose name matches; Null when none
findSessionByName(name) ==
    LET hits == {i \in DOMAIN consoleSessions : consoleSessions[i].name = name}
    IN  IF hits = {} THEN Null
        ELSE consoleSessions[CHOOSE i \in hits : \A j \in hits : i <= j].id

\* variant: the id of a session that was closed is handed out again
NewSessionId_Recycled ==
    LET closedIds == {i \in 1..(nextId - 1) : i \notin SessionIds}
    IN  IF closedIds = {} THEN nextId
        ELSE CHOOSE i \in closedIds : \A j \in closedIds : i <= j

\* `console-${Date.now()}-${random}`: a value no earlier session carries
NewSessionId == nextId

\* variant: the tab styles are updated but the active session is not
switchToTab_StylesOnly(sessionId, ts, cs) ==
    /\ activeSessionId' = activeSessionId
    /\ activeTabs' = {t \in Range(ts) : t = sessionId}
    /\ hiddenContainers' = {c \in cs : c # sessionId}

\* variant: the pane is shown but the panes of the other sessions stay
switchToTab_KeepVisible(sessionId, ts, cs) ==
    /\ activeSessionId' = sessionId
    /\ activeTabs' = {t \in Range(ts) : t = sessionId}
    /\ hiddenContainers' = (hiddenContainers \cap cs) \ {sessionId}

\* switchToTab(sessionId) over the tabs ts and panes cs present at the call
switchToTab(sessionId, ts, cs) ==
    /\ activeSessionId' = sessionId
    /\ activeTabs' = {t \in Range(ts) : t = sessionId}
    /\ hiddenContainers' = {c \in cs : c # sessionId}

\* ------------------------------------------------- transports (libraries)
\* RFB.disconnect(): starts closing a live client, nothing on a dead one
RfbDisconnectCall(state) ==
    IF state \in {"connecting", "connected"} THEN "disconnecting" ELSE state

\* WebSocket.close(): starts the closing handshake of a live socket
SocketCloseCall(state) ==
    IF state \in {"connecting", "open"} THEN "closing" ELSE state

\* vnc-viewer.js cleanupSession(sessionId), the client states being r
cleanupVncSession(sessionId, r) ==
    /\ rfb' = IF sessionId \in rfbClients
              THEN [r EXCEPT ![sessionId] = RfbDisconnectCall(@)]
              ELSE r
    /\ rfbClients' = rfbClients \ {sessionId}
    /\ vncSessions' = vncSessions \ {sessionId}

\* variant: the socket is forgotten without being closed
cleanupTerminalSession_NoClose(sessionId) ==
    /\ sock' = sock
    /\ termSockets' = termSockets \ {sessionId}
    /\ term' = IF sessionId \in termInstances
               THEN [term EXCEPT ![sessionId] = "disposed"]
               ELSE term
    /\ termInstances' = termInstances \ {sessionId}
    /\ termFitAddons' = termFitAddons \ {sessionId}
    /\ termSessions' = termSessions \ {sessionId}

\* terminal.js cleanupSession(sessionId) (lines 409-430)
cleanupTerminalSession(sessionId) ==
    /\ sock' = IF sessionId \in termSockets
               THEN [sock EXCEPT ![sessionId] = SocketCloseCall(@)]
               ELSE sock
    /\ termSockets' = termSockets \ {sessionId}
    /\ term' = IF sessionId \in termInstances
               THEN [term EXCEPT ![sessionId] = "disposed"]
               ELSE term
    /\ termInstances' = termInstances \ {sessionId}
    /\ termFitAddons' = termFitAddons \ {sessionId}
    /\ termSessions' = termSessions \ {sessionId}

\* variant: the iterator is read to its end, giving the newest session
firstSessionId_Last(sessions) == sessions[Len(sessions)].id

\* consoleSessions.keys().next().value (line 199): the first key of the Map
\* in insertion order
firstSessionId(sessions) == sessions[1].id

\* variant: the console viewer is left visible when the last session goes
closeTabBody_NoHide(sessionId, r) ==
    LET session == GetSession(sessionId)
        remaining == SelectSeq(consoleSessions,
                               LAMBDA s : s.id # sessionId)
        tabsAfter == Remove(tabs, sessionId)
        contAfter == containers \ {sessionId}
    IN  /\ IF session.type = "vnc"
           THEN cleanupVncSession(sessionId, r) /\ UNCHANGED termVars
           ELSE /\ cleanupTerminalSession(sessionId)
                /\ UNCHANGED <<vncSessions, rfbClients>>
                /\ rfb' = r
        /\ tabs' = tabsAfter
        /\ containers' = contAfter
        /\ consoleSessions' = remaining
        /\ IF activeSessionId = sessionId
           THEN IF Len(remaining) > 0
                THEN /\ switchToTab(firstSessionId(remaining), tabsAfter,
                                 contAfter)
                     /\ UNCHANGED viewerHidden
                ELSE /\ UNCHANGED viewerHidden
                     /\ activeSessionId' = Null
                     /\ activeTabs' = activeTabs \ {sessionId}
                     /\ hiddenContainers' = hiddenContainers \ {sessionId}
           ELSE /\ UNCHANGED <<activeSessionId, viewerHidden>>
                /\ activeTabs' = activeTabs \ {sessionId}
                /\ hiddenContainers' = hiddenContainers \ {sessionId}

\* variant: the registry is cleared instead of losing one entry
closeTabBody_ClearAll(sessionId, r) ==
    LET session == GetSession(sessionId)
        remaining == <<>>
        tabsAfter == Remove(tabs, sessionId)
        contAfter == containers \ {sessionId}
    IN  /\ IF session.type = "vnc"
           THEN cleanupVncSession(sessionId, r) /\ UNCHANGED termVars
           ELSE /\ cleanupTerminalSession(sessionId)
                /\ UNCHANGED <<vncSessions, rfbClients>>
                /\ rfb' = r
        /\ tabs' = tabsAfter
        /\ containers' = contAfter
        /\ consoleSessions' = remaining
        /\ IF activeSessionId = sessionId
           THEN IF Len(remaining) > 0
                THEN /\ switchToTab(firstSessionId(remaining), tabsAfter,
                                 contAfter)
                     /\ UNCHANGED viewerHidden
                ELSE /\ viewerHidden' = TRUE
                     /\ activeSessionId' = Null
                     /\ activeTabs' = activeTabs \ {sessionId}
                     /\ hiddenContainers' = hiddenContainers \ {sessionId}
           ELSE /\ UNCHANGED <<activeSessionId, viewerHidden>>
                /\ activeTabs' = activeTabs \ {sessionId}
                /\ hiddenContainers' = hiddenContainers \ {sessionId}

\* closeTab(sessionId) past its guard (lines 172-208); r is the state of the
\* RFB clients at the call
closeTabBody(sessionId, r) ==
    LET session == GetSession(sessionId)
        remaining == SelectSeq(consoleSessions,
                               LAMBDA s : s.id # sessionId)
        tabsAfter == Remove(tabs, sessionId)
        contAfter == containers \ {sessionId}
    IN  /\ IF session.type = "vnc"
           THEN cleanupVncSession(sessionId, r) /\ UNCHANGED termVars
           ELSE /\ cleanupTerminalSession(sessionId)
                /\ UNCHANGED <<vncSessions, rfbClients>>
                /\ rfb' = r
        /\ tabs' = tabsAfter
        /\ containers' = contAfter
        /\ consoleSessions' = remaining
        /\ IF activeSessionId = sessionId
           THEN IF Len(remaining) > 0
                THEN /\ switchToTab(firstSessionId(remaining), tabsAfter,
                                 contAfter)
                     /\ UNCHANGED viewerHidden
                ELSE /\ viewerHidden' = TRUE
                     /\ activeSessionId' = Null
                     /\ activeTabs' = activeTabs \ {sessionId}
                     /\ hiddenContainers' = hiddenContainers \ {sessionId}
           ELSE /\ UNCHANGED <<activeSessionId, viewerHidden>>
                /\ activeTabs' = activeTabs \ {sessionId}
                /\ hiddenContainers' = hiddenContainers \ {sessionId}

\* variant: an unknown id closes the foreground session instead
closeTab_Fallback(sessionId, r) ==
    IF HasSession(sessionId) THEN closeTabBody(sessionId, r)
    ELSE IF HasSession(activeSessionId)
         THEN closeTabBody(activeSessionId, r)
    ELSE /\ UNCHANGED registryVars
         /\ UNCHANGED <<vncSessions, rfbClients>>
         /\ rfb' = r
         /\ UNCHANGED termVars

\* closeTab(sessionId) (lines 163-209)
closeTab(sessionId, r) ==
    IF ~HasSession(sessionId)
    THEN /\ UNCHANGED registryVars
         /\ UNCHANGED <<vncSessions, rfbClients>>
         /\ rfb' = r
         /\ UNCHANGED termVars
    ELSE closeTabBody(sessionId, r)

\* variant: the session object is stored again under its id
SetInstance_Reinsert(sessions, sessionId) ==
    IF \E i \in DOMAIN sessions : sessions[i].id = sessionId
    THEN [i \in DOMAIN sessions |->
             IF sessions[i].id = sessionId
             THEN [sessions[i] EXCEPT !.instance = sessionId]
             ELSE sessions[i]]
    ELSE Append(sessions, [id |-> sessionId, name |-> "vm1", type |-> "vnc",
                           port |-> 5901, instance |-> sessionId])

\* session.instance = <transport of sessionId>, on the session object that
\* initVncSession / initTerminalSession fetched when it started
SetInstance(sessions, sessionId) ==
    [i \in DOMAIN sessions |->
        IF sessions[i].id = sessionId
        THEN [sessions[i] EXCEPT !.instance = sessionId]
        ELSE sessions[i]]

\* variant: the session is stored before the port is looked at
LaunchVncStart_CheckLate(sessionId, port) ==
    /\ vncSessions' = vncSessions \cup {sessionId}
    /\ IF port = 0
       THEN /\ connectFailed' = connectFailed \cup {sessionId}
            /\ status' = [status EXCEPT ![sessionId] =
                             St("Connecting...", "console-status-info")]
            /\ vncPc' = [vncPc EXCEPT ![sessionId] = "noport"]
       ELSE /\ status' = [status EXCEPT ![sessionId] =
                             St("Connecting...", "console-status-connecting")]
            /\ vncPc' = [vncPc EXCEPT ![sessionId] = "await"]
            /\ UNCHANGED connectFailed

\* launchVncInContainer up to its first await (lines 245-275), as called
\* by initVncSession from openConsole
LaunchVncStart(sessionId, port) ==
    IF port = 0
    THEN \* throws before anything is stored; initVncSession catches it
         /\ connectFailed' = connectFailed \cup {sessionId}
         /\ status' = [status EXCEPT ![sessionId] =
                          St("Connecting...", "console-status-info")]
         /\ vncPc' = [vncPc EXCEPT ![sessionId] = "noport"]
         /\ UNCHANGED vncSessions
    ELSE /\ vncSessions' = vncSessions \cup {sessionId}
         /\ status' = [status EXCEPT ![sessionId] =
                          St("Connecting...", "console-status-connecting")]
         /\ vncPc' = [vncPc EXCEPT ![sessionId] = "await"]
         /\ UNCHANGED connectFailed

\* launchTerminalInContainer (lines 238-397), synchronous; how tells where
\* it throws: "nolib" at the library checks, "ctor" at new Terminal,
\* "socket" at new WebSocket, "ok" nowhere
LaunchTerminal(sessionId, how) ==
    /\ connectFailed' = IF how = "ok" THEN connectFailed
                        ELSE connectFailed \cup {sessionId}
    /\ status' = [status EXCEPT ![sessionId] =
                    CASE how = "nolib" -> St("Connecting...", "console-status-info")
                      [] how = "ok" -> St("Connecting...", "console-status-connecting")
                      [] OTHER -> St("Error", "console-status-error")]
    /\ termSessions' = IF how = "nolib" THEN termSessions
                       ELSE termSessions \cup {sessionId}
    /\ term' = IF how \in {"ok", "socket"}
               THEN [term EXCEPT ![sessionId] = "open"] ELSE term
    /\ sock' = IF how = "ok"
               THEN [sock EXCEPT ![sessionId] = "connecting"] ELSE sock
    /\ termInstances' = IF how = "ok" THEN termInstances \cup {sessionId}
                        ELSE termInstances
    /\ termSockets' = IF how = "ok" THEN termSockets \cup {sessionId}
                      ELSE termSockets
    /\ termFitAddons' = IF how = "ok" THEN termFitAddons \cup {sessionId}
                        ELSE termFitAddons

\* openConsole(name, type, port, icon)
openConsole(name, type, port, icon, how) ==
    LET existingSessionId == findSessionByName(name) IN
    IF existingSessionId # Null
    THEN /\ switchToTab(existingSessionId, tabs, containers)
         /\ lastOp' = Op("openConsole", "reuse")
         /\ Tick
         /\ UNCHANGED <<consoleSessions, nextId, viewerHidden, tabs,
                        containers, status, connectFailed, vncVars, vncPc,
                        termVars, sockErr, rfbSecFail, termOut, ioVars, pendingApi,
                        ctlIssued, pasteVars, closeTimers>>
    ELSE /\ nextId <= MaxId
         /\ LET sessionId == NewSessionId
                session == [id |-> sessionId, name |-> name, type |-> type,
                            port |-> port, instance |-> Null]
                tabsNow == Append(tabs, sessionId)
            IN  /\ nextId' = nextId + 1
                /\ viewerHidden' = FALSE
                /\ tabs' = tabsNow
                /\ switchToTab(sessionId, tabsNow, containers)
                /\ containers' = containers \cup {sessionId}
                /\ lastOp' = Op("openConsole", "new")
                /\ IF type = "vnc"
                   THEN /\ consoleSessions' = Append(consoleSessions, session)
                        /\ LaunchVncStart(sessionId, port)
                        /\ UNCHANGED <<rfbClients, rfb, termVars>>
                   ELSE /\ consoleSessions' =
                              IF how = "ok"
                              THEN SetInstance(Append(consoleSessions, session),
                                               sessionId)
                              ELSE Append(consoleSessions, session)
                        /\ LaunchTerminal(sessionId, how)
                        /\ UNCHANGED <<vncVars, vncPc>>
                /\ UNCHANGED <<sockErr, rfbSecFail, termOut, ioVars, pendingApi,
                               ctlIssued, pasteVars, closeTimers>>
                /\ Tick

\* the "Take Over" button of a running VM (vm-manager.js lines 147-163):
\* the kind follows vm.type, a container has no display port
takeOver(name) ==
    \E port \in Ports, icon \in Icons, how \in LaunchOutcomes :
        /\ VmType(name) = "terminal" => port = 0
        /\ VmType(name) = "vnc" => how = "ok"
        /\ openConsole(name, VmType(name), port, icon, how)

OpenConsole ==
    \E name \in Names : takeOver(name)

\* variant: the sockets of the sessions put in the background are closed
switchTabClick_Suspend(sessionId) ==
        /\ lastOp' = Op("switchToTab", "")
        /\ Tick
        /\ switchToTab(sessionId, tabs, containers)
        /\ sock' = [i \in Ids |->
                       IF i # sessionId /\ sock[i] \in {"connecting", "open"}
                       THEN "closing" ELSE sock[i]]
        /\ UNCHANGED <<consoleSessions, nextId, viewerHidden, tabs,
                       containers, status, connectFailed, vncVars, vncPc,
                       termSessions, termInstances, termSockets,
                       termFitAddons, term, sockErr, rfbSecFail, termOut, msgCount,
                       received, keyVars, pendingApi, ctlIssued, pasteVars, closeTimers>>

\* click on a tab button
switchTabClick(sessionId) ==
        /\ lastOp' = Op("switchToTab", "")
        /\ Tick
        /\ switchToTab(sessionId, tabs, containers)
        /\ UNCHANGED <<consoleSessions, nextId, viewerHidden, tabs,
                       containers, status, connectFailed, vncVars, vncPc,
                       termVars, sockErr, rfbSecFail, termOut, ioVars, pendingApi,
                       ctlIssued, pasteVars, closeTimers>>

SwitchToTab ==
    \E sessionId \in Range(tabs) : switchTabClick(sessionId)

\* click on a tab's close button, or window.ConsoleManager.closeTab(id)
closeTabCall(sessionId) ==
        /\ lastOp' = Op("closeTab",
                        IF HasSession(sessionId) THEN "closed" ELSE "noop")
        /\ Tick
        /\ closeTab(sessionId, rfb)
        /\ UNCHANGED <<nextId, status, connectFailed, vncPc, sockErr, rfbSecFail,
                       termOut, ioVars, pendingApi, ctlIssued, pasteVars, closeTimers>>

CloseTab ==
    \E sessionId \in Ids : closeTabCall(sessionId)

\* launchVncInContainer resumes after `await requestClipboardPermissions()`
\* (lines 277-365), then initVncSession after its await (lines 256-260)
vncLaunchResume(sessionId, rfbLoaded) ==
        /\ vncPc[sessionId] = "await"
        /\ lastOp' = Op("vncLaunchResume",
                        IF rfbLoaded THEN "ok" ELSE "throw")
        /\ Tick
        /\ IF rfbLoaded
           THEN /\ rfb' = [rfb EXCEPT ![sessionId] = "connecting"]
                /\ rfbClients' = rfbClients \cup {sessionId}
                /\ consoleSessions' = SetInstance(consoleSessions, sessionId)
                /\ vncPc' = [vncPc EXCEPT ![sessionId] = "done"]
                /\ UNCHANGED <<status, connectFailed>>
           ELSE \* new window.RFB throws
                /\ status' = [status EXCEPT ![sessionId] =
                                 St("Error", "console-status-error")]
                /\ connectFailed' = connectFailed \cup {sessionId}
                /\ vncPc' = [vncPc EXCEPT ![sessionId] = "rejected"]
                /\ UNCHANGED <<rfb, rfbClients, consoleSessions>>
        /\ UNCHANGED <<activeSessionId, nextId, viewerHidden, tabs,
                       activeTabs, containers, hiddenContainers, vncSessions,
                       termVars, sockErr, rfbSecFail, termOut, ioVars, pendingApi,
                       ctlIssued, pasteVars, closeTimers>>

VncLaunchResume ==
    \E sessionId \in Ids, rfbLoaded \in BOOLEAN : vncLaunchResume(sessionId, rfbLoaded)

\* setTimeout(() => closeTab(sessionId), delay): one more pending timer
Schedule(timers, sessionId) ==
    [timers EXCEPT ![sessionId] = @ + 1]

\* variant: the data is put in front of what the terminal already shows
TermWrite_Prepend(out, sessionId, x) ==
    IF term[sessionId] = "open"
    THEN [out EXCEPT ![sessionId] = <<x>> \o @]
    ELSE out

\* variant: the handler writes to the terminal of the foreground session
TermWrite_Foreground(out, sessionId, x) ==
    IF activeSessionId \in Ids /\ term[activeSessionId] = "open"
    THEN [out EXCEPT ![activeSessionId] = Append(@, x)]
    ELSE out

\* terminal.write / terminal.writeln of x on the terminal the handler of
\* sessionId captured; a disposed terminal renders nothing
TermWrite(out, sessionId, x) ==
    IF term[sessionId] = "open"
    THEN [out EXCEPT ![sessionId] = Append(@, x)]
    ELSE out

\* ------------------------------------------------ graphical transport events
\* 'connect' listener (vnc-viewer.js lines 301-308)
rfbConnect(sessionId) ==
        /\ rfb[sessionId] = "connecting"
        /\ lastOp' = Op("rfbConnect", "")
        /\ Tick
        /\ rfb' = [rfb EXCEPT ![sessionId] = "connected"]
        /\ status' = [status EXCEPT ![sessionId] =
                         St("Connected", "console-status-connected")]
        /\ UNCHANGED <<registryVars, nextId, connectFailed, vncSessions,
                       rfbClients, vncPc, termVars, sockErr, rfbSecFail, termOut,
                       ioVars, pendingApi, ctlIssued, pasteVars, closeTimers>>

RfbConnect ==
    \E sessionId \in Ids : rfbConnect(sessionId)

\* 'securityfailure' listener (lines 324-331); the client then fails
rfbSecurityFailure(sessionId) ==
        /\ rfb[sessionId] = "connecting"
        /\ lastOp' = Op("rfbSecurityFailure", "")
        /\ Tick
        /\ rfb' = [rfb EXCEPT ![sessionId] = "failing"]
        /\ rfbSecFail' = rfbSecFail \cup {sessionId}
        /\ status' = [status EXCEPT ![sessionId] =
                         St("Security Error", "console-status-error")]
        /\ UNCHANGED <<registryVars, nextId, connectFailed, vncSessions,
                       rfbClients, vncPc, termVars, sockErr, termOut,
                       ioVars, pendingApi, ctlIssued, pasteVars, closeTimers>>

RfbSecurityFailure ==
    \E sessionId \in Ids : rfbSecurityFailure(sessionId)

\* the clean flags the library can report when a client in this state ends
RfbCleanFlags(state) ==
    CASE state \in {"connecting", "failing"} -> {FALSE}
      [] state = "connected" -> {TRUE, FALSE}
      [] state = "disconnecting" -> {TRUE}
      [] OTHER -> {}

\* variant: the listener never notifies the console manager
closesOnDisconnect_Never(clean) == FALSE

\* `e.detail.clean && window.ConsoleManager` (line 319)
closesOnDisconnect(clean) == clean

\* 'disconnect' listener (lines 310-322)
rfbDisconnect(sessionId, clean) ==
        LET ended == [rfb EXCEPT ![sessionId] = "disconnected"] IN
        /\ clean \in RfbCleanFlags(rfb[sessionId])
        /\ lastOp' = Op("rfbDisconnect",
                        IF ~clean THEN "unclean"
                        ELSE IF HasSession(sessionId) THEN "clean"
                        ELSE "late")
        /\ Tick
        /\ status' = [status EXCEPT ![sessionId] =
                         St(IF clean THEN "Clean Disconnect"
                                     ELSE "Disconnected",
                            "console-status-error")]
        /\ IF closesOnDisconnect(clean)
           THEN closeTab(sessionId, ended)
           ELSE /\ rfb' = ended
                /\ UNCHANGED <<registryVars, vncSessions, rfbClients,
                               termVars>>
        /\ UNCHANGED <<nextId, connectFailed, vncPc, sockErr, rfbSecFail, termOut,
                       ioVars, pendingApi, ctlIssued, pasteVars, closeTimers>>

RfbDisconnect ==
    \E sessionId \in Ids, clean \in BOOLEAN : rfbDisconnect(sessionId, clean)

\* ----------------------------------------------------- text transport events
\* socket.onopen (terminal.js lines 325-335)
socketOnOpen(sessionId) ==
        /\ sock[sessionId] = "connecting"
        /\ sessionId \notin sockErr
        /\ lastOp' = Op("socketOpen", "")
        /\ Tick
        /\ sock' = [sock EXCEPT ![sessionId] = "open"]
        /\ status' = [status EXCEPT ![sessionId] =
                         St("Connected", "console-status-connected")]
        /\ termOut' = TermWrite(termOut, sessionId, "Connected to")
        /\ UNCHANGED <<registryVars, nextId, connectFailed, vncVars, vncPc,
                       termSessions, termInstances, termSockets,
                       termFitAddons, term, sockErr, rfbSecFail, ioVars, pendingApi,
                       ctlIssued, pasteVars, closeTimers>>

SocketOpen ==
    \E sessionId \in Ids : socketOnOpen(sessionId)

\* variant: the message waits until no graphical launch is suspended
socketOnMessage_AfterLaunch(sessionId, d) ==
        /\ sock[sessionId] \in {"open", "closing"}
        /\ sessionId \notin sockErr
        /\ msgCount[sessionId] < MaxMsgs
        /\ \A g \in Ids : vncPc[g] # "await"
        /\ lastOp' = Op("socketMessage", "")
        /\ Tick
        /\ msgCount' = [msgCount EXCEPT ![sessionId] = @ + 1]
        /\ received' = [received EXCEPT ![sessionId] = Append(@, d)]
        /\ UNCHANGED keyVars
        /\ termOut' = TermWrite(termOut, sessionId, d)
        /\ UNCHANGED <<registryVars, nextId, status, connectFailed, vncVars,
                       vncPc, termVars, sockErr, rfbSecFail, pendingApi, ctlIssued, pasteVars,
                       closeTimers>>

\* socket.onmessage (lines 337-341)
socketOnMessage(sessionId, d) ==
        /\ sock[sessionId] \in {"open", "closing"}
        /\ sessionId \notin sockErr
        /\ msgCount[sessionId] < MaxMsgs
        /\ lastOp' = Op("socketMessage", "")
        /\ Tick
        /\ msgCount' = [msgCount EXCEPT ![sessionId] = @ + 1]
        /\ received' = [received EXCEPT ![sessionId] = Append(@, d)]
        /\ UNCHANGED keyVars
        /\ termOut' = TermWrite(termOut, sessionId, d)
        /\ UNCHANGED <<registryVars, nextId, status, connectFailed, vncVars,
                       vncPc, termVars, sockErr, rfbSecFail, pendingApi, ctlIssued, pasteVars,
                       closeTimers>>

SocketMessage ==
    \E sessionId \in Ids, d \in Data : socketOnMessage(sessionId, d)

\* socket.onerror (lines 343-358)
socketOnError(sessionId) ==
        /\ sock[sessionId] \in {"connecting", "open", "closing"}
        /\ sessionId \notin sockErr
        /\ lastOp' = Op("socketError", "")
        /\ Tick
        /\ sockErr' = sockErr \cup {sessionId}
        /\ status' = [status EXCEPT ![sessionId] =
                         St("Connection Error", "console-status-error")]
        /\ termOut' = TermWrite(termOut, sessionId, "Connection error")
        /\ closeTimers' = Schedule(closeTimers, sessionId)
        /\ UNCHANGED <<registryVars, nextId, connectFailed, vncVars, vncPc,
                       rfbSecFail, termVars, ioVars, pendingApi, ctlIssued, pasteVars>>

SocketError ==
    \E sessionId \in Ids : socketOnError(sessionId)

\* socket.onclose (lines 360-375)
socketOnClose(sessionId) ==
        /\ sock[sessionId] \in {"connecting", "open", "closing"}
        /\ lastOp' = Op("socketClose", "")
        /\ Tick
        /\ sock' = [sock EXCEPT ![sessionId] = "closed"]
        /\ status' = [status EXCEPT ![sessionId] =
                         St("Disconnected", "console-status-error")]
        /\ termOut' = TermWrite(termOut, sessionId, "Connection closed")
        /\ closeTimers' = Schedule(closeTimers, sessionId)
        /\ UNCHANGED <<registryVars, nextId, connectFailed, vncVars, vncPc,
                       termSessions, termInstances, termSockets,
                       termFitAddons, term, sockErr, rfbSecFail, ioVars, pendingApi,
                       ctlIssued, pasteVars>>

SocketClose ==
    \E sessionId \in Ids : socketOnClose(sessionId)

\* variant: the readyState guard is missing and the data is queued on a
\* socket that is not open
SocketSend_Unguarded(out, sessionId, k) ==
    [out EXCEPT ![sessionId] = Append(@, k)]

\* `if (socket && socket.readyState === WebSocket.OPEN) socket.send(data)`
\* (lines 379-381) on the socket the handler of sessionId captured
SocketSend(out, sessionId, k) ==
    IF sock[sessionId] = "open"
    THEN [out EXCEPT ![sessionId] = Append(@, k)]
    ELSE out

\* terminal.onData (lines 377-382): the handler exists once the socket has
\* been constructed and fires while the terminal is not disposed
termOnData(sessionId, k) ==
        /\ term[sessionId] = "open"
        /\ sock[sessionId] # "none"
        /\ keyCount[sessionId] < MaxKeys
        /\ lastOp' = Op("termData",
                        IF sock[sessionId] = "open" THEN "sent" ELSE "dropped")
        /\ Tick
        /\ keyCount' = [keyCount EXCEPT ![sessionId] = @ + 1]
        /\ sent' = SocketSend(sent, sessionId, k)
        /\ UNCHANGED <<registryVars, nextId, status, connectFailed, vncVars,
                       vncPc, termVars, sockErr, rfbSecFail, termOut, msgCount, received,
                       pendingApi, ctlIssued, pasteVars, closeTimers>>

TermData ==
    \E sessionId \in Ids, k \in Keys : termOnData(sessionId, k)

\* ------------------------------------------------------------ clipboard paste
\* what navigator.clipboard.readText() can give
ClipboardReads == {"text", "empty", "denied"}

\* handleVncPaste goes on past its guard (line 374): the session is
\* registered, graphical, and its instance is set
PasteAccepted(sessionId) ==
    /\ HasSession(sessionId)
    /\ GetSession(sessionId).type = "vnc"
    /\ GetSession(sessionId).instance # Null

\* handleVncPaste up to `await navigator.clipboard.readText()` (lines 372-377)
handleVncPaste(sessionId) ==
        /\ lastOp' = Op("paste",
                        IF PasteAccepted(sessionId) THEN "reading"
                        ELSE "ignored")
        /\ Tick
        /\ IF PasteAccepted(sessionId)
           THEN /\ pasteIssued < MaxPaste
                /\ pasteIssued' = pasteIssued + 1
                /\ pendingPaste' = [pendingPaste EXCEPT ![sessionId] = @ + 1]
           ELSE UNCHANGED <<pasteIssued, pendingPaste>>
        /\ UNCHANGED <<registryVars, nextId, status, connectFailed, vncVars,
                       vncPc, termVars, sockErr, rfbSecFail, termOut, ioVars,
                       pendingApi, ctlIssued, closeTimers, pasteCalls,
                       pasteLate>>

HandleVncPaste ==
    \E sessionId \in Ids : handleVncPaste(sessionId)

\* `if (text) session.instance.clipboardPasteFrom(text)` (lines 378-379), on
\* the session object fetched before the await
PasteForwards(sessionId, read) ==
    read = "text"

\* handleVncPaste resumes after the clipboard read (lines 378-385)
pasteResume(sessionId, read) ==
        /\ pendingPaste[sessionId] > 0
        /\ lastOp' = Op("pasteResume",
                        IF PasteForwards(sessionId, read) THEN "pasted"
                        ELSE "none")
        /\ Tick
        /\ pendingPaste' = [pendingPaste EXCEPT ![sessionId] = @ - 1]
        /\ pasteCalls' = IF PasteForwards(sessionId, read)
                         THEN [pasteCalls EXCEPT ![sessionId] = @ + 1]
                         ELSE pasteCalls
        /\ pasteLate' = IF PasteForwards(sessionId, read)
                           /\ ~HasSession(sessionId)
                        THEN pasteLate \cup {sessionId}
                        ELSE pasteLate
        /\ UNCHANGED <<registryVars, nextId, status, connectFailed, vncVars,
                       vncPc, termVars, sockErr, rfbSecFail, termOut, ioVars,
                       pendingApi, ctlIssued, closeTimers, pasteIssued>>

PasteResume ==
    \E sessionId \in Ids, read \in ClipboardReads :
        pasteResume(sessionId, read)

\* ------------------------------------------------------------ control actions
\* variant: the kind of the session is not looked at
control_AnyKind(kind, sessionId, action) ==
    IF HasSession(sessionId)
    THEN /\ ctlIssued < MaxControl
         /\ ctlIssued' = ctlIssued + 1
         /\ pendingApi' = [pendingApi EXCEPT ![<<sessionId, kind, action>>] = @ + 1]
         /\ lastOp' = Op("control", "sent")
    ELSE /\ UNCHANGED <<ctlIssued, pendingApi>>
         /\ lastOp' = Op("control", "ignored")

\* vncControl / terminalControl up to `await apiCall` (lines 336-341, 354-359)
control(kind, sessionId, action) ==
    IF HasSession(sessionId) /\ GetSession(sessionId).type = kind
    THEN /\ ctlIssued < MaxControl
         /\ ctlIssued' = ctlIssued + 1
         /\ pendingApi' = [pendingApi EXCEPT ![<<sessionId, kind, action>>] = @ + 1]
         /\ lastOp' = Op("control", "sent")
    ELSE /\ UNCHANGED <<ctlIssued, pendingApi>>
         /\ lastOp' = Op("control", "ignored")

\* the verbs a call of kind for sessionId is told apart by: the guard
\* (lines 337-338, 355-356) returns before the action is read, so one verb
\* stands for all of them in a call that the guard turns away
VerbsFor(kind, sessionId, verbs) ==
    IF HasSession(sessionId) /\ GetSession(sessionId).type = kind
    THEN verbs
    ELSE {"stop"}

VncControl ==
    \E sessionId \in Ids :
      \E action \in VerbsFor("vnc", sessionId, Verbs) :
        /\ Tick
        /\ control("vnc", sessionId, action)
        /\ UNCHANGED <<registryVars, nextId, status, connectFailed, vncVars,
                       vncPc, termVars, sockErr, rfbSecFail, termOut, ioVars,
                       closeTimers, pasteVars>>

TerminalControl ==
    \E sessionId \in Ids :
      \E action \in VerbsFor("terminal", sessionId, TerminalVerbs) :
        /\ Tick
        /\ control("terminal", sessionId, action)
        /\ UNCHANGED <<registryVars, nextId, status, connectFailed, vncVars,
                       vncPc, termVars, sockErr, rfbSecFail, termOut, ioVars,
                       closeTimers, pasteVars>>

\* variant: the result of the request is not looked at
SchedulesClose_AnyResult(result, action) ==
    action \in {"stop", "destroy"}

\* variant: a force stop does not schedule the teardown
SchedulesClose_StopOnly(result, action) ==
    result = "success" /\ action = "stop"

\* the condition under which the control action schedules the teardown
\* (lines 343-345, 361-363)
SchedulesClose(result, action) ==
    result = "success" /\ action \in {"stop", "destroy"}

\* vncControl / terminalControl after apiCall returned (lines 343-348, 361-366)
apiResponse(req, result) ==
        /\ pendingApi[req] > 0
        /\ lastOp' = Op("apiResponse",
                        IF SchedulesClose(result, req[3]) THEN "scheduled"
                        ELSE IF result = "success" THEN "kept"
                        ELSE "failed")
        /\ Tick
        /\ pendingApi' = [pendingApi EXCEPT ![req] = @ - 1]
        /\ closeTimers' = IF SchedulesClose(result, req[3])
                          THEN Schedule(closeTimers, req[1])
                          ELSE closeTimers
        /\ UNCHANGED <<registryVars, nextId, status, connectFailed, vncVars,
                       vncPc, termVars, sockErr, rfbSecFail, termOut, ioVars, ctlIssued, pasteVars>>

ApiResponse ==
    \E req \in Reqs, result \in ApiResults : apiResponse(req, result)

\* a pending setTimeout callback runs: closeTab(sessionId)
timerFire(sessionId) ==
        /\ closeTimers[sessionId] > 0
        /\ lastOp' = Op("timer",
                        IF HasSession(sessionId) THEN "closed" ELSE "noop")
        /\ Tick
        /\ closeTimers' = [closeTimers EXCEPT ![sessionId] = @ - 1]
        /\ closeTab(sessionId, rfb)
        /\ UNCHANGED <<nextId, status, connectFailed, vncPc, sockErr, rfbSecFail,
                       termOut, ioVars, pendingApi, ctlIssued, pasteVars>>

TimerFire ==
    \E sessionId \in Ids : timerFire(sessionId)

Next ==
    \/ OpenConsole
    \/ SwitchToTab
    \/ CloseTab
    \/ VncLaunchResume
    \/ RfbConnect
    \/ RfbSecurityFailure
    \/ RfbDisconnect
    \/ SocketOpen
    \/ SocketMessage
    \/ SocketError
    \/ SocketClose
    \/ TermData
    \/ HandleVncPaste
    \/ PasteResume
    \/ VncControl
    \/ TerminalControl
    \/ ApiResponse
    \/ TimerFire

Spec == Init /\ [][Next]_vars

\* ------------------------------------------------------------ host terminal
\* setHostTerminalStatus(text, type) (part_005 lines 10-32)
setHostTerminalStatus(h, text) == [h EXCEPT !.status = text]

\* `if (hostTermInstance) hostTermInstance.write(x)`: the handlers write to
\* the terminal the global names when they run
HostWrite(h, x) ==
    IF h.hostTermInstance # Null
    THEN [h EXCEPT !.out[h.hostTermInstance] = Append(@, x)]
    ELSE h

\* closeHostTerminal(skipDisconnect) (lines 186-215)
closeHostTerminal(h, skipDisconnect) ==
    LET closed == IF h.hostTermSocket # Null /\ ~skipDisconnect
                  THEN [h EXCEPT !.sock[h.hostTermSocket] = SocketCloseCall(@)]
                  ELSE h
        disposed == IF closed.hostTermInstance # Null
                    THEN [closed EXCEPT !.term[closed.hostTermInstance] =
                                            "disposed"]
                    ELSE closed
    IN  [disposed EXCEPT !.hostTermSocket = Null, !.hostTermInstance = Null,
                         !.hostTermFitAddon = Null, !.viewer = "hidden"]

\* launchHostTerminal() (lines 34-184); how tells where it stops: "nolib" at
\* the library checks, "ctor" before the terminal is stored, "socket" at
\* new WebSocket, "ok" nowhere
launchHostTerminal(h, how) ==
    IF how = "nolib" THEN h
    ELSE
    LET n == h.launches + 1
        shown == [setHostTerminalStatus(h, "Connecting...")
                     EXCEPT !.viewer = "shown", !.launches = n]
        closed == IF shown.hostTermSocket # Null
                  THEN [shown EXCEPT !.sock[shown.hostTermSocket] =
                                         SocketCloseCall(@),
                                     !.hostTermSocket = Null]
                  ELSE shown
        disposed == IF closed.hostTermInstance # Null
                    THEN [closed EXCEPT !.term[closed.hostTermInstance] =
                                            "disposed",
                                        !.hostTermInstance = Null]
                    ELSE closed
        opened == [disposed EXCEPT !.hostTermInstance = n,
                                   !.hostTermFitAddon = n,
                                   !.term[n] = "open"]
    IN  CASE how = "ctor" -> setHostTerminalStatus(disposed, "Error")
          [] how = "socket" -> setHostTerminalStatus(opened, "Error")
          [] OTHER -> [opened EXCEPT !.hostTermSocket = n,
                                     !.sock[n] = "connecting"]

\* click on the button that opens the host console
LaunchHostTerminal ==
    \E how \in LaunchOutcomes :
        /\ hostTerminal.launches < MaxLaunch
        /\ lastOp' = Op("hostLaunch", how)
        /\ HostTick
        /\ hostTerminal' = launchHostTerminal(hostTerminal, how)

\* click on the close button of the host terminal viewer
CloseHostTerminal ==
    /\ lastOp' = Op("hostClose", "")
    /\ HostTick
    /\ hostTerminal' = closeHostTerminal(hostTerminal, FALSE)

\* hostTermSocket.onopen of connection n (lines 137-144)
hostSocketOnOpen(n) ==
    /\ hostTerminal.sock[n] = "connecting"
    /\ n \notin hostTerminal.errored
    /\ lastOp' = Op("hostSocketOpen", "")
    /\ HostTick
    /\ hostTerminal' =
          HostWrite([setHostTerminalStatus(hostTerminal, "Connected")
                        EXCEPT !.sock[n] = "open"],
                    "Connected to host console")

HostSocketOpen ==
    \E n \in Launches : hostSocketOnOpen(n)

\* hostTermSocket.onmessage of connection n (lines 146-150)
hostSocketOnMessage(n, d) ==
    /\ hostTerminal.sock[n] \in {"open", "closing"}
    /\ n \notin hostTerminal.errored
    /\ hostTerminal.msgs < MaxMsgs
    /\ lastOp' = Op("hostSocketMessage", "")
    /\ HostTick
    /\ hostTerminal' = HostWrite([hostTerminal EXCEPT !.msgs = @ + 1], d)

HostSocketMessage ==
    \E n \in Launches, d \in Data : hostSocketOnMessage(n, d)

\* hostTermSocket.onerror of connection n (lines 152-160)
hostSocketOnError(n) ==
    /\ hostTerminal.sock[n] \in {"connecting", "open", "closing"}
    /\ n \notin hostTerminal.errored
    /\ lastOp' = Op("hostSocketError", "")
    /\ HostTick
    /\ hostTerminal' =
          HostWrite([setHostTerminalStatus(hostTerminal, "Connection Error")
                        EXCEPT !.errored = @ \cup {n},
                               !.timers[n] = @ + 1],
                    "Connection error")

HostSocketError ==
    \E n \in Launches : hostSocketOnError(n)

\* hostTermSocket.onclose of connection n (lines 162-170)
hostSocketOnClose(n) ==
    /\ hostTerminal.sock[n] \in {"connecting", "open", "closing"}
    /\ lastOp' = Op("hostSocketClose", "")
    /\ HostTick
    /\ hostTerminal' =
          HostWrite([setHostTerminalStatus(hostTerminal, "Disconnected")
                        EXCEPT !.sock[n] = "closed",
                               !.timers[n] = @ + 1],
                    "Connection closed")

HostSocketClose ==
    \E n \in Launches : hostSocketOnClose(n)

\* hostTermInstance.onData of the terminal of launch n (lines 173-177): the
\* handler is registered after the socket was made and sends on the socket
\* the global names when it runs
hostTermOnData(n, k) ==
    LET h == hostTerminal IN
    /\ h.term[n] = "open"
    /\ h.sock[n] # "none"
    /\ h.keys < MaxKeys
    /\ lastOp' = Op("hostTermData", "")
    /\ HostTick
    /\ hostTerminal' =
          IF h.hostTermSocket # Null /\ h.sock[h.hostTermSocket] = "open"
          THEN [h EXCEPT !.keys = @ + 1,
                         !.sent[h.hostTermSocket] = Append(@, k)]
          ELSE [h EXCEPT !.keys = @ + 1]

HostTermData ==
    \E n \in Launches, k \in Keys : hostTermOnData(n, k)

\* a pending `setTimeout(() => closeHostTerminal(true), 2000)` of
\* connection n runs (lines 159, 169)
hostTimerFire(n) ==
    /\ hostTerminal.timers[n] > 0
    /\ lastOp' = Op("hostTimer", "")
    /\ HostTick
    /\ hostTerminal' =
          closeHostTerminal([hostTerminal EXCEPT !.timers[n] = @ - 1], TRUE)

HostTimerFire ==
    \E n \in Launches : hostTimerFire(n)

HostNext ==
    \/ LaunchHostTerminal
    \/ CloseHostTerminal
    \/ HostSocketOpen
    \/ HostSocketMessage
    \/ HostSocketError
    \/ HostSocketClose
    \/ HostTermData
    \/ HostTimerFire

HostSpec == Init /\ [][HostNext]_vars

\* ===================================================================== claims
Created(s) == s < nextId
Closed(s) == Created(s) /\ s \notin SessionIds
ErrorClass == "console-status-error"
LiveRfb == {"connecting", "failing", "connected"}
LiveSock == {"connecting", "open"}

\* the registry entries carrying id t in the registry sessions
Entry(sessions, t) ==
    {sessions[i] : i \in {j \in DOMAIN sessions : sessions[j].id = t}}

\* the registry entries attached to the target name
EntriesOf(sessions, name) ==
    {i \in DOMAIN sessions : sessions[i].name = name}

\* C1: the registry never holds two sessions with the same target name.
C1_OneSessionPerTarget ==
    \A i, j \in DOMAIN consoleSessions :
        consoleSessions[i].name = consoleSessions[j].name => i = j

\* two targets are open and the last call re-opened one of them
C1_Witness ==
    /\ Len(consoleSessions) = 2
    /\ lastOp = Op("openConsole", "reuse")

\* C2: an openConsole call on a target that already has a session, whatever
\* kind, port or icon it passes, creates no session, no tab, no pane and no
\* transport; one session and one tab exist for the target afterwards.
C2_OpenIsIdempotent ==
    [][\A name \in Names :
          (/\ lastOp'.op = "openConsole"
           /\ EntriesOf(consoleSessions, name) # {}
           /\ \E type \in Types, port \in Ports, icon \in Icons,
                 how \in LaunchOutcomes :
                   openConsole(name, type, port, icon, how))
          => /\ UNCHANGED <<consoleSessions, nextId, tabs, containers,
                            vncVars, vncPc, termVars>>
             /\ Cardinality(EntriesOf(consoleSessions', name)) = 1
             /\ \A i \in EntriesOf(consoleSessions', name) :
                   Cardinality({k \in DOMAIN tabs' :
                                   tabs'[k] = consoleSessions'[i].id}) = 1
      ]_vars

\* a target whose transport exists has just been re-opened
C2_Witness ==
    /\ lastOp = Op("openConsole", "reuse")
    /\ \E s \in SessionIds : s = activeSessionId /\ s \in rfbClients

\* C3: once a session has been closed, no transport made for it is live
\* (an RFB client that is connecting or connected, a WebSocket that is
\* connecting or open) and none is held in rfbClients / termSockets.
C3_ClosedSessionHasNoTransport ==
    \A s \in Ids :
        Closed(s) => /\ rfb[s] \notin LiveRfb
                     /\ sock[s] \notin LiveSock
                     /\ s \notin rfbClients
                     /\ s \notin termSockets

\* C4: closeTab on an id that is not registered changes neither the registry,
\* the tabs, the panes, the foreground, the console surface nor a transport,
\* whether it is called by the close button, a delayed timer or the
\* disconnect listener.
C4_CloseIsIdempotent ==
    [][\A s \in Ids :
          s \notin SessionIds =>
            /\ (closeTabCall(s) \/ timerFire(s))
                  => UNCHANGED <<registryVars, vncVars, termVars>>
            /\ rfbDisconnect(s, TRUE)
                  => /\ UNCHANGED <<registryVars, vncSessions, rfbClients,
                                    termVars>>
                     /\ \A t \in Ids \ {s} : rfb'[t] = rfb[t]
      ]_vars

\* a timer of a closed session fired while another session is registered
C4_Witness ==
    /\ lastOp = Op("timer", "noop")
    /\ consoleSessions # <<>>

\* an event or timer that originates from session s
EventOf(s) ==
    \/ socketOnOpen(s)
    \/ \E d \in Data : socketOnMessage(s, d)
    \/ socketOnError(s)
    \/ socketOnClose(s)
    \/ rfbConnect(s)
    \/ rfbSecurityFailure(s)
    \/ \E clean \in BOOLEAN : rfbDisconnect(s, clean)
    \/ timerFire(s)

\* the step leaves everything that belongs to the sessions other than s
OthersUntouched(s) ==
    \A t \in Ids \ {s} :
        /\ Entry(consoleSessions', t) = Entry(consoleSessions, t)
        /\ t \in Range(tabs') <=> t \in Range(tabs)
        /\ t \in containers' <=> t \in containers
        /\ status'[t] = status[t]
        /\ termOut'[t] = termOut[t]
        /\ term'[t] = term[t]
        /\ sock'[t] = sock[t]
        /\ rfb'[t] = rfb[t]
        /\ t \in rfbClients' <=> t \in rfbClients
        /\ t \in vncSessions' <=> t \in vncSessions
        /\ t \in termSockets' <=> t \in termSockets
        /\ t \in termInstances' <=> t \in termInstances
        /\ t \in termSessions' <=> t \in termSessions
        /\ closeTimers'[t] = closeTimers[t]

\* C5: a transport event or delayed teardown of session s touches nothing
\* that belongs to another session, and once s is closed it changes nothing
\* in the registry, the tabs or the foreground either.
C5_EventsActOnOwnSession ==
    [][\A s \in Ids :
          EventOf(s) => /\ OthersUntouched(s)
                        /\ Closed(s) => UNCHANGED registryVars
      ]_vars

\* the timer of a closed text session fired while a later text session
\* (same target: the only container) is registered
C5_Witness ==
    /\ lastOp = Op("timer", "noop")
    /\ \E s, t \in Ids :
          /\ Closed(s) /\ sock[s] # "none"
          /\ t \in SessionIds /\ t > s
          /\ \E i \in DOMAIN consoleSessions :
                consoleSessions[i].id = t /\ consoleSessions[i].name = "lxc1"

\* C6: a session whose connect failed shows an error status and, while it is
\* registered, has its automatic close scheduled.
C6_FailedConnectAutoCloses ==
    \A s \in connectFailed :
        /\ status[s].class = ErrorClass
        /\ s \in SessionIds => closeTimers[s] > 0

\* C7: a registered graphical session whose transport ended uncleanly shows
\* an error status and has its automatic close scheduled.
C7_UncleanDisconnectAutoCloses ==
    \A s \in SessionIds :
        (rfb[s] = "disconnected" /\ status[s].text = "Disconnected")
            => /\ status[s].class = ErrorClass
               /\ closeTimers[s] > 0

\* C8: a clean disconnect of a registered, connected graphical session
\* removes the session, its tab, its pane (with the status element) and its
\* transport in that very step, and schedules no timer.
C8_CleanDisconnectClosesAtOnce ==
    [][\A s \in Ids :
          (s \in SessionIds /\ rfb[s] = "connected" /\ rfbDisconnect(s, TRUE))
          => /\ s \notin {consoleSessions'[i].id : i \in DOMAIN consoleSessions'}
             /\ s \notin Range(tabs')
             /\ s \notin containers'
             /\ s \notin rfbClients'
             /\ s \notin vncSessions'
             /\ rfb'[s] = "disconnected"
             /\ closeTimers' = closeTimers
      ]_vars

\* a connected graphical session has just been closed by a clean disconnect
C8_Witness ==
    /\ lastOp = Op("rfbDisconnect", "clean")
    /\ \E s \in Ids : Closed(s) /\ status[s].text = "Clean Disconnect"

\* C9: on an error or close of the socket of a registered text session the
\* banner is written to its terminal, its status shows the error, the session
\* stays registered and one close timer is scheduled; when a close timer of a
\* registered text session fires, the session leaves the registry and its
\* socket and terminal are released.
C9_TextErrorBannerThenClose ==
    [][\A s \in Ids :
          (s \in SessionIds /\ sock[s] # "none") =>
            /\ socketOnError(s)
                 => /\ termOut'[s] = Append(termOut[s], "Connection error")
                    /\ status'[s] = St("Connection Error", ErrorClass)
                    /\ closeTimers'[s] = closeTimers[s] + 1
                    /\ UNCHANGED <<registryVars, termVars>>
            /\ socketOnClose(s)
                 => /\ termOut'[s] = Append(termOut[s], "Connection closed")
                    /\ status'[s] = St("Disconnected", ErrorClass)
                    /\ closeTimers'[s] = closeTimers[s] + 1
                    /\ UNCHANGED <<registryVars, termSessions, termInstances,
                                   termSockets, termFitAddons, term>>
            /\ timerFire(s)
                 => /\ s \notin {consoleSessions'[i].id :
                                    i \in DOMAIN consoleSessions'}
                    /\ s \notin Range(tabs')
                    /\ s \notin termSockets' \cup termInstances'
                    /\ sock'[s] \notin LiveSock
                    /\ term'[s] = "disposed"
      ]_vars

\* the socket of a text session failed, the timer then closed the session
C9_Witness ==
    /\ lastOp = Op("timer", "closed")
    /\ \E s \in Ids :
          /\ Closed(s) /\ s \in sockErr
          /\ status[s] = St("Connection Error", ErrorClass)
          /\ termOut[s] # <<>>
          /\ termOut[s][Len(termOut[s])] = "Connection error"

\* C10: when a stop or destroy request of a registered session returns
\* success, the step changes nothing of the registry, the tabs, the status
\* or the transports and schedules one close timer for the session; when a
\* close timer of a registered session fires, the session is closed.
C10_ControlGraceDelay ==
    [][\A s \in Ids :
          s \in SessionIds =>
            /\ \A kind \in Types, action \in {"stop", "destroy"} :
                  apiResponse(<<s, kind, action>>, "success")
                  => /\ UNCHANGED <<registryVars, vncVars, termVars, status>>
                     /\ closeTimers' = [closeTimers EXCEPT ![s] = @ + 1]
            /\ timerFire(s)
                  => /\ s \notin {consoleSessions'[i].id :
                                     i \in DOMAIN consoleSessions'}
                     /\ s \notin Range(tabs')
                     /\ s \notin rfbClients' \cup termSockets'
      ]_vars

\* a connected session whose stop request succeeded waits for its timer
C10_Witness ==
    /\ lastOp = Op("apiResponse", "scheduled")
    /\ \E s \in SessionIds :
          /\ closeTimers[s] > 0
          /\ status[s].text = "Connected"
          /\ s \in rfbClients \cup termSockets

\* C11: when a management request returns without success, or for a verb
\* other than stop and destroy, the step schedules no close timer and changes
\* nothing of the registry, the tabs, the status or the transports; a step
\* of a control action schedules a close timer for s only on the success of
\* a stop or destroy request of s.
C11_TeardownOnlyOnSuccess ==
    [][lastOp'.op = "apiResponse" =>
         /\ \A req \in Reqs, result \in ApiResults :
               (/\ apiResponse(req, result)
                /\ ~(result = "success" /\ req[3] \in {"stop", "destroy"}))
               => /\ closeTimers' = closeTimers
                  /\ UNCHANGED <<registryVars, vncVars, termVars, status>>
         /\ \A s \in Ids :
               closeTimers'[s] # closeTimers[s]
               => \E kind \in Types, action \in {"stop", "destroy"} :
                     apiResponse(<<s, kind, action>>, "success")
      ]_vars

\* the stop or force-stop request of the only session, an open text session,
\* has just failed and the session is still there with its socket
C11_Witness ==
    /\ lastOp = Op("apiResponse", "failed")
    /\ nextId = 2
    /\ \E s \in SessionIds :
          /\ GetSession(s).type = "terminal"
          /\ sock[s] = "open" /\ s \in termSockets
          /\ closeTimers[s] = 0

\* C12: a graphical session opened with the port absent or zero is rejected
\* at the port check and reported by the catch block of initVncSession; no
\* RFB client is ever constructed for it and it never gets an entry in
\* rfbClients or vncSessions.
C12_NoPortNoTransport ==
    \A s \in Ids :
        /\ (HasSession(s) /\ GetSession(s).type = "vnc"
                          /\ GetSession(s).port = 0)
              => vncPc[s] = "noport"
        /\ vncPc[s] = "noport"
              => /\ s \in connectFailed
                 /\ rfb[s] = "none"
                 /\ s \notin rfbClients
                 /\ s \notin vncSessions

\* a session opened without a port has been closed again, while a session
\* opened with a port holds its RFB client
C12_Witness ==
    \E s, t \in Ids :
        /\ vncPc[s] = "noport" /\ Closed(s)
        /\ t \in SessionIds /\ t \in rfbClients

\* the session registered earliest among those of the registry other than s
\* (ids are handed out in increasing order), Null when there is none
OldestOther(s) ==
    LET others == SessionIds \ {s}
    IN  IF others = {} THEN Null
        ELSE CHOOSE t \in others : \A u \in others : t <= u

\* a step that closes the registered session s, by any of the three paths
Closes(s) ==
    \/ closeTabCall(s)
    \/ timerFire(s)
    \/ rfbDisconnect(s, TRUE)

\* C13: when the foreground session is closed, by the close button, a close
\* timer or a clean disconnect, the session registered earliest among the
\* remaining ones becomes the foreground, with its tab active and its pane
\* the only visible one; the foreground becomes none when none remains.
C13_CloseSelectsOldest ==
    [][lastOp'.op \in {"closeTab", "timer", "rfbDisconnect"} =>
         \A s \in Ids :
            (s \in SessionIds /\ activeSessionId = s /\ Closes(s))
            => /\ activeSessionId' = OldestOther(s)
               /\ OldestOther(s) # Null
                     => /\ activeTabs' = {OldestOther(s)}
                        /\ hiddenContainers' = containers' \ {OldestOther(s)}
      ]_vars

\* three sessions were opened one after the other and the third, in the
\* foreground since it was opened, was closed at once: of the two that
\* remain the first is the foreground
C13_Witness ==
    /\ lastOp.op \in {"closeTab", "timer", "rfbDisconnect"}
    /\ steps = 4
    /\ Closed(3)
    /\ SessionIds = {1, 2}
    /\ activeSessionId = 1
    /\ activeTabs = {1}

\* C14: the console viewer is hidden exactly when no session is registered;
\* in particular it is hidden once the last session has been closed, by the
\* close button, a close timer or a clean disconnect.
C14_ViewerHiddenIffEmpty ==
    viewerHidden <=> consoleSessions = <<>>

\* the close timer of the last session has fired and emptied the registry
C14_Witness ==
    /\ lastOp = Op("timer", "closed")
    /\ consoleSessions = <<>>
    /\ viewerHidden

\* C15: while sessions are registered the foreground id is the id of one of
\* them, the tab of that session is the only active tab and its pane the
\* only visible pane; the foreground id is null exactly when the registry is
\* empty.
C15_OneForeground ==
    /\ activeSessionId = Null <=> consoleSessions = <<>>
    /\ consoleSessions # <<>>
          => /\ activeSessionId \in SessionIds
             /\ activeTabs = {activeSessionId}
             /\ containers \ hiddenContainers = {activeSessionId}

\* the foreground session of several was closed and another one took over
C15_Witness ==
    /\ lastOp = Op("closeTab", "closed")
    /\ Len(consoleSessions) = 2
    /\ activeSessionId \in SessionIds
    /\ \E s \in Ids : Closed(s) /\ s > activeSessionId

\* C16: a click on a tab changes the foreground id, the active tab and the
\* visibility of the panes and nothing else: registry, tabs, panes, status
\* elements, transports, terminals, what they rendered and pending timers
\* and requests stay as they were; a message that arrives for a session in
\* the background is appended to what its terminal shows.
C16_SwitchLeavesTransports ==
    [][/\ lastOp'.op = "switchToTab" =>
            \A s \in Range(tabs) :
               switchTabClick(s)
               => UNCHANGED <<consoleSessions, tabs, containers, viewerHidden,
                              status, vncVars, vncPc, termVars, sockErr, rfbSecFail,
                              termOut, received, sent, pendingApi,
                              closeTimers>>
       /\ lastOp'.op = "socketMessage" =>
            \A s \in SessionIds, d \in Data :
               (s # activeSessionId /\ socketOnMessage(s, d))
               => termOut'[s] = Append(termOut[s], d)
      ]_vars

\* the text session opened last was put in the background by a switch to the
\* first session; a message then arrived and was rendered by its terminal
C16_Witness ==
    /\ lastOp = Op("socketMessage", "")
    /\ steps = 5 /\ nextId = 3
    /\ activeSessionId = 1
    /\ 2 \in SessionIds
    /\ sock[2] = "open"
    /\ Len(termOut[2]) = 2
    /\ termOut[2][2] \in Data

\* C17: the tab bar holds exactly one tab per registered session and no
\* other tab, in the order of registration: a tab appears in the step that
\* registers its session and goes in the step that removes it.
C17_TabsMatchSessions ==
    /\ Len(tabs) = Len(consoleSessions)
    /\ \A i \in DOMAIN tabs : tabs[i] = consoleSessions[i].id

\* a session was closed by its timer and the sessions that remain have
\* their tabs
C17_Witness ==
    /\ lastOp = Op("timer", "closed")
    /\ Len(tabs) = 2
    /\ \E s \in Ids : Closed(s) /\ s \notin Range(tabs)

\* openConsole registers session a and its connect fails in the same run
OpenFails(a) ==
    /\ nextId = a
    /\ \E name \in Names, port \in Ports, icon \in Icons,
          how \in LaunchOutcomes :
            /\ findSessionByName(name) = Null
            /\ \/ VmType(name) = "vnc" /\ port = 0
               \/ VmType(name) = "terminal" /\ how # "ok"
            /\ openConsole(name, VmType(name), port, icon, how)

\* a step in which session a fails or is closed as a result: a failed
\* connect, a transport error, an unclean close, the delayed close
FailureOf(a) ==
    \/ OpenFails(a)
    \/ vncLaunchResume(a, FALSE)
    \/ rfbSecurityFailure(a)
    \/ rfbDisconnect(a, FALSE)
    \/ socketOnError(a)
    \/ socketOnClose(a)
    \/ timerFire(a)

\* C18: a step in which session a fails leaves, for every other session b,
\* the registry entry, tab, pane, status, transport, terminal, rendered
\* output, inbound and outbound data and timers as they were; the
\* foreground changes in such a step only from a or to a.
C18_FailureStaysInSession ==
    [][lastOp'.op \in {"openConsole", "vncLaunchResume", "rfbSecurityFailure",
                       "rfbDisconnect", "socketError", "socketClose",
                       "timer"} =>
         \A a \in Ids :
            FailureOf(a)
            => /\ OthersUntouched(a)
               /\ \A b \in Ids \ {a} : /\ received'[b] = received[b]
                                       /\ sent'[b] = sent[b]
               /\ activeSessionId' # activeSessionId
                     => (activeSessionId = a \/ activeSessionId' = a)
      ]_vars

\* the socket of the text session failed and its timer closed it, while the
\* graphical session opened before it keeps its entry, tab and RFB client
C18_Witness ==
    /\ lastOp = Op("timer", "closed")
    /\ Closed(2) /\ 2 \in sockErr
    /\ 1 \in SessionIds
    /\ 1 \in Range(tabs)
    /\ 1 \in rfbClients /\ rfb[1] = "connecting"
    /\ activeSessionId = 1

\* the inbound messages among what a terminal was given, banners left out
Rendered(s) == SelectSeq(termOut[s], LAMBDA x : x \in Data)

IsPrefix(p, q) ==
    /\ Len(p) <= Len(q)
    /\ \A i \in DOMAIN p : p[i] = q[i]

\* C19: a registered text session with a socket has its terminal; while the
\* terminal exists, the inbound messages it was given are exactly the
\* messages its socket delivered, in the order of delivery; once the
\* terminal is disposed it holds the messages delivered until then, in that
\* order.
C19_InboundOrderKept ==
    \A s \in Ids :
        /\ (s \in SessionIds /\ sock[s] # "none") => term[s] = "open"
        /\ IF term[s] = "open"
           THEN Rendered(s) = received[s]
           ELSE IsPrefix(Rendered(s), received[s])

\* two different messages were delivered to an open text session
C19_Witness ==
    /\ lastOp = Op("socketMessage", "")
    /\ \E s \in SessionIds :
          /\ term[s] = "open"
          /\ Len(received[s]) = 2
          /\ received[s][1] # received[s][2]
          /\ Len(termOut[s]) = 3

\* C20 as stated: every keystroke entered in the terminal of a text session
\* has been put on the socket of that session, none is lost.
C20_EveryKeystrokeForwarded ==
    \A s \in Ids : Len(sent[s]) = keyCount[s]

\* C20, amended: a keystroke entered in the terminal of a text session is
\* put at once on the socket of that session when the socket is open and is
\* discarded when it is not (connecting, closing, closed); it is never put on
\* the socket of another session, never written to a terminal, and the step
\* changes nothing of the registry or the transports.
C20_KeystrokeForwardedWhenOpen ==
    [][lastOp'.op = "termData" =>
         \A s \in Ids, k \in Keys :
            termOnData(s, k)
            => /\ sent'[s] = IF sock[s] = "open" THEN Append(sent[s], k)
                             ELSE sent[s]
               /\ \A t \in Ids \ {s} : sent'[t] = sent[t]
               /\ termOut' = termOut
               /\ UNCHANGED <<registryVars, vncVars, termVars>>
      ]_vars

\* a keystroke entered in an open text session, with a second session
\* registered, has been put on the socket of the text session only
C20_Witness ==
    /\ lastOp = Op("termData", "sent")
    /\ Len(consoleSessions) = 2
    /\ \E s \in SessionIds :
          /\ sock[s] = "open"
          /\ sent[s] = <<"k">>
          /\ \A t \in Ids \ {s} : sent[t] = <<>>

\* C21: a registered session whose credential was rejected (the RFB client
\* fired securityfailure and has ended, or the console socket was refused
\* and fired its error event) shows an error status and has its automatic
\* close scheduled.
C21_RejectedCredentialAutoCloses ==
    \A s \in SessionIds :
        /\ (s \in rfbSecFail /\ rfb[s] = "disconnected")
              => /\ status[s].class = ErrorClass
                 /\ closeTimers[s] > 0
        /\ s \in sockErr
              => /\ status[s].class = ErrorClass
                 /\ closeTimers[s] > 0

\* session s has failed: its connect threw, its socket fired error, its
\* credential was rejected or its RFB client ended uncleanly
Failed(s) ==
    \/ s \in connectFailed
    \/ s \in sockErr
    \/ s \in rfbSecFail
    \/ rfb[s] = "disconnected" /\ status[s].text = "Disconnected"

\* session s, created earlier, was opened on the target name; of a closed
\* session only the kind is still known (a text session never started a
\* graphical launch), and the only text target is the container
WasOpenedOn(s, name) ==
    /\ Created(s)
    /\ IF HasSession(s) THEN GetSession(s).name = name
       ELSE vncPc[s] = "idle" /\ VmType(name) = "terminal"

\* the step registers a session for name under an id no session had before,
\* starts its launch and leaves what belongs to the earlier ids alone
OpensFresh(name) ==
    /\ Len(consoleSessions') = Len(consoleSessions) + 1
    /\ LET new == consoleSessions'[Len(consoleSessions')]
       IN  /\ new.name = name
           /\ ~Created(new.id)
           /\ status'[new.id].text \in {"Connecting...", "Error"}
           /\ \A s \in Ids \ {new.id} :
                 /\ rfb'[s] = rfb[s]
                 /\ sock'[s] = sock[s]
                 /\ term'[s] = term[s]
                 /\ status'[s] = status[s]
                 /\ vncPc'[s] = vncPc[s]

IdsOf(sessions) == {sessions[i].id : i \in DOMAIN sessions}

\* C24: the set of registered sessions changes only in a step of openConsole,
\* which adds the one id it generated, and in a step that runs closeTab on a
\* registered id (close button, close timer, clean disconnect), which removes
\* that id together with its tab; tab clicks, control actions and their
\* responses, clipboard paste, the completion of a connect, transport events
\* and inbound or outbound data leave it, and every entry's target and
\* kind, unchanged.
C24_OnlyRegistryInsertsAndRemoves ==
    [][CASE lastOp'.op = "openConsole" ->
               \/ IdsOf(consoleSessions') = SessionIds
               \/ IdsOf(consoleSessions') = SessionIds \cup {nextId}
         [] lastOp'.op \in {"closeTab", "timer", "rfbDisconnect"} ->
               \/ IdsOf(consoleSessions') = SessionIds
               \/ \E s \in SessionIds :
                     /\ Closes(s)
                     /\ IdsOf(consoleSessions') = SessionIds \ {s}
                     /\ Range(tabs') = Range(tabs) \ {s}
         [] OTHER ->
               /\ Len(consoleSessions') = Len(consoleSessions)
               /\ \A i \in DOMAIN consoleSessions :
                     /\ consoleSessions'[i].id = consoleSessions[i].id
                     /\ consoleSessions'[i].name = consoleSessions[i].name
                     /\ consoleSessions'[i].type = consoleSessions[i].type
      ]_vars

\* the launch of a graphical session that was closed meanwhile has completed
\* while another session is registered
C24_Witness ==
    /\ lastOp = Op("vncLaunchResume", "ok")
    /\ consoleSessions # <<>>
    /\ \E s \in Ids : Closed(s) /\ vncPc[s] = "done"

\* C28: handleVncPaste does nothing for an id that is not registered, for a
\* text session and for a session whose instance is not set, and when the
\* clipboard read returns it calls clipboardPasteFrom only on the client of
\* a session that is registered at that moment.
C28_PasteOnlyToRegistered ==
    [][lastOp'.op \in {"paste", "pasteResume"} =>
         \A s \in Ids :
            /\ (/\ handleVncPaste(s)
                /\ ~(/\ HasSession(s)
                     /\ GetSession(s).type = "vnc"
                     /\ GetSession(s).instance # Null))
                  => UNCHANGED pasteVars
            /\ \A read \in ClipboardReads :
                  (pasteResume(s, read) /\ pasteCalls'[s] # pasteCalls[s])
                  => HasSession(s)
      ]_vars

\* the status texts of a session whose transport is being set up or is up
Forward == {"Connecting...", "Connected"}

\* C25: the lifecycle of a session only moves forward: its status turns to
\* Connected only from Connecting, and once it shows an error or
\* disconnected status, or the session has been closed, its status never
\* turns to Connecting or Connected again.
C25_LifecycleMovesForward ==
    [][status' # status =>
         \A s \in Ids :
            status'[s] # status[s] =>
               /\ status'[s].text = "Connected"
                     => status[s].text = "Connecting..."
               /\ (status[s].class = ErrorClass \/ Closed(s))
                     => status'[s].text \notin Forward
      ]_vars

\* the ids under which rfbClients / termSockets hold a live transport
LiveKeys ==
    {s \in rfbClients : rfb[s] \in LiveRfb}
        \cup {s \in termSockets : sock[s] \in LiveSock}

\* C27: every live transport held in rfbClients / termSockets is keyed by
\* the id of a registered session, and no two of them belong to sessions of
\* the same target name.
C27_OneLiveTransportPerTarget ==
    /\ LiveKeys \subseteq SessionIds
    /\ \A s, t \in LiveKeys \cap SessionIds :
          GetSession(s).name = GetSession(t).name => s = t

\* C29: a control action addressed to an id that is not registered, or to
\* a session of the other kind, sends no management request, schedules no
\* teardown and leaves the registry, the page and every transport as they
\* were: the call that is turned away changes nothing, and a request is
\* only ever sent for a registered session of the kind of the call.
C29_MisaddressedControlIsNoOp ==
    [][lastOp'.op = "control" =>
         /\ lastOp'.arg = "ignored"
               => UNCHANGED <<pendingApi, ctlIssued, closeTimers,
                              registryVars, nextId, status, connectFailed,
                              vncVars, vncPc, termVars, sockErr, rfbSecFail,
                              termOut, ioVars, pasteVars>>
         /\ \A req \in Reqs :
               pendingApi'[req] # pendingApi[req]
               => /\ HasSession(req[1])
                  /\ GetSession(req[1]).type = req[2]
      ]_vars

\* a control action was ignored while a text session with an open socket and
\* a closed session exist: no request is in flight, no teardown is scheduled
C29_Witness ==
    /\ lastOp = Op("control", "ignored")
    /\ \E s \in SessionIds :
          GetSession(s).type = "terminal" /\ sock[s] = "open"
    /\ \E s \in Ids : Closed(s)
    /\ ctlIssued = 0
    /\ \A s \in Ids : closeTimers[s] = 0

\* session s is the foreground after the step: the active session, the only
\* active tab and the only visible pane
ForegroundAfter(s) ==
    /\ activeSessionId' = s
    /\ activeTabs' = {s}
    /\ containers' \ hiddenContainers' = {s}

\* C30: openConsole on a target that has a session makes that session the
\* foreground and changes nothing else; openConsole on a target without a
\* session makes the session it registers the foreground.
C30_OpenBringsToForeground ==
    [][lastOp'.op = "openConsole" =>
         \A name \in Names :
            takeOver(name) =>
               IF findSessionByName(name) # Null
               THEN /\ ForegroundAfter(findSessionByName(name))
                    /\ UNCHANGED <<consoleSessions, nextId, viewerHidden,
                                   tabs, containers, status, connectFailed,
                                   vncVars, vncPc, termVars, sockErr,
                                   rfbSecFail, termOut, ioVars, pendingApi,
                                   ctlIssued, pasteVars, closeTimers>>
               ELSE /\ Len(consoleSessions') = Len(consoleSessions) + 1
                    /\ ForegroundAfter(consoleSessions'[Len(consoleSessions')].id)
      ]_vars

\* the first of two sessions was in the background and its target was
\* opened again: it is the foreground
C30_Witness ==
    /\ lastOp = Op("openConsole", "reuse")
    /\ steps = 3
    /\ Len(consoleSessions) = 2
    /\ activeSessionId = consoleSessions[1].id
    /\ hiddenContainers = {consoleSessions[2].id}

\* graphical session g is stalled: its launch is suspended at the await, or
\* its client has been made and its transport has not opened
Stalled(g) ==
    /\ HasSession(g)
    /\ GetSession(g).type = "vnc"
    /\ vncPc[g] = "await" \/ rfb[g] = "connecting"

\* C26: while a graphical session is stalled, a message that has arrived for
\* another session can be delivered and is then written to its terminal,
\* a target without a session can be opened, and every other session can be
\* switched to and closed; none of these steps touches the stalled launch.
C26_NoSessionBlocksAnother ==
    \A g \in Ids :
        (Stalled(g) /\ steps < MaxSteps) =>
            /\ \A t \in Ids \ {g}, d \in Data :
                  (/\ sock[t] = "open" /\ t \notin sockErr
                   /\ term[t] = "open" /\ msgCount[t] < MaxMsgs)
                  => ENABLED (/\ socketOnMessage(t, d)
                              /\ termOut'[t] = Append(termOut[t], d)
                              /\ vncPc'[g] = vncPc[g] /\ rfb'[g] = rfb[g])
            /\ \A name \in Names :
                  (findSessionByName(name) = Null /\ nextId <= MaxId)
                  => ENABLED (/\ takeOver(name)
                              /\ Len(consoleSessions') = Len(consoleSessions) + 1
                              /\ vncPc'[g] = vncPc[g] /\ rfb'[g] = rfb[g])
            /\ \A t \in SessionIds \ {g} :
                  /\ ENABLED (/\ switchTabClick(t)
                              /\ activeSessionId' = t
                              /\ vncPc'[g] = vncPc[g] /\ rfb'[g] = rfb[g])
                  /\ ENABLED (/\ closeTabCall(t)
                              /\ Len(consoleSessions') = Len(consoleSessions) - 1
                              /\ vncPc'[g] = vncPc[g] /\ rfb'[g] = rfb[g])

\* a message of a text session has just been delivered and rendered while
\* the launch of a registered graphical session is suspended
C26_Witness ==
    /\ lastOp = Op("socketMessage", "")
    /\ \E g \in Ids : Stalled(g) /\ vncPc[g] = "await"
    /\ \E t \in SessionIds :
          /\ received[t] # <<>>
          /\ Rendered(t) = received[t]

\* C23: an error or close event of an earlier host connection, and the
\* delayed closeHostTerminal it scheduled, leave a host connection launched
\* after it alone: the later terminal is not disposed and stays the current
\* one, its viewer stays shown, and the reference to its socket is kept
\* while that socket is connecting or open.
C23_EarlierHostConnectionLeavesLater ==
    [][lastOp'.op \in {"hostSocketError", "hostSocketClose", "hostTimer"} =>
         \A n \in Launches :
            (hostSocketOnError(n) \/ hostSocketOnClose(n) \/ hostTimerFire(n))
            => \A m \in Launches :
                  m > n =>
                     /\ hostTerminal.hostTermInstance = m
                           => /\ hostTerminal'.hostTermInstance = m
                              /\ hostTerminal'.term[m] = "open"
                              /\ hostTerminal'.viewer = "shown"
                     /\ (/\ hostTerminal.hostTermSocket = m
                         /\ hostTerminal.sock[m] \in LiveSock)
                           => hostTerminal'.hostTermSocket = m
      ]_vars
====
